---- MODULE Spec2Model ----
(***************************************************************************)
(* Model of the documentation sync script of astro.config.mjs (lines       *)
(* 62-138): reset of the cache directory, sparse git checkout of the       *)
(* "docs" subtree, recursive stripping of numeric ordering prefixes, and   *)
(* replacement of src/content/docs/docs by the normalized subtree.         *)
(*                                                                         *)
(* A name is a sequence of one-character strings, a path is a sequence of  *)
(* names relative to the directory it lives in, and a tree is a function   *)
(* from paths to nodes [kind, data].                                       *)
(***************************************************************************)
EXTENDS Integers, Sequences, FiniteSets, TLC

\* ------------------------------------------------------------------ bounds
MaxNameLen == 3
MaxNodes == 3
MaxDepth == 2

\* ------------------------------------------------------------- characters
Digits == {"0", "1", "2", "3", "4", "5", "6", "7", "8", "9"}

IsDigit(c) == c \in Digits

\* Characters the checked names are built from: two digits, the hyphen, a
\* letter and the extension dot.
Alphabet == {"1", "2", "-", "a", "."}

RECURSIVE SeqsUpTo(_, _)
SeqsUpTo(S, n) ==
  IF n = 0 THEN {<<>>}
  ELSE LET shorter == SeqsUpTo(S, n - 1)
       IN  shorter \cup {Append(s, c) : s \in shorter, c \in S}

AllNames == SeqsUpTo(Alphabet, MaxNameLen)

\* ------------------------------------------------------------ stripPrefix
\* Length of the longest run of digits at the start of name: what the greedy
\* \d+ of the pattern consumes.
DigitRun(name) ==
  CHOOSE k \in 0..Len(name) :
    /\ \A i \in 1..k : IsDigit(name[i])
    /\ k = Len(name) \/ ~IsDigit(name[k + 1])

\* /^\d+-/ matches name.
HasPrefix(name) ==
  LET k == DigitRun(name)
  IN  k >= 1 /\ k < Len(name) /\ name[k + 1] = "-"

\* A slip of the pattern: the prefix is never recognised.
stripPrefixKeep(name) == name

\* name.replace(/^\d+-/, "")
stripPrefix(name) ==
  IF HasPrefix(name)
  THEN SubSeq(name, DigitRun(name) + 2, Len(name))
  ELSE name

\* ------------------------------------------------------------------ trees
DirNode == [kind |-> "dir", origin |-> "", at |-> <<>>]

\* A file; its bytes are identified by where they come from (origin: the
\* upstream repository, the previously published copy or a previous cache)
\* and the path they had there.
FileNode(origin, at) == [kind |-> "file", origin |-> origin, at |-> at]

EmptyTree == [p \in {} |-> DirNode]

IsPrefix(p, q) == Len(p) <= Len(q) /\ SubSeq(q, 1, Len(p)) = p

Parent(p) == SubSeq(p, 1, Len(p) - 1)

\* The root (the empty path) is the directory the tree hangs from.
Exists(t, p) == p = <<>> \/ p \in DOMAIN t

IsDir(t, p) == p = <<>> \/ (p \in DOMAIN t /\ t[p].kind = "dir")

Children(t, p) == {q \in DOMAIN t : Len(q) = Len(p) + 1 /\ IsPrefix(p, q)}

Restrict(t, S) == [p \in S |-> t[p]]

PrefixClosed(S) == \A p \in S : Len(p) = 1 \/ Parent(p) \in S

\* What an interrupted or failed recursive operation can leave of t.
PartialTrees(t) == {Restrict(t, S) : S \in {X \in SUBSET DOMAIN t : PrefixClosed(X)}}

\* path.join(dirPath, name): an empty name adds no segment.
Join(dirPath, name) == IF name = <<>> THEN dirPath ELSE Append(dirPath, name)

\* Names the upstream subtree is built from: unprefixed, prefixed, two
\* prefixes with the same remainder, a stacked prefix, a bare prefix.
NameA == <<"a">>
Name1A == <<"1", "-", "a">>
Name2A == <<"2", "-", "a">>
Name11A == <<"1", "-", "1", "-", "a">>
Name1 == <<"1", "-">>

TreeNames == {NameA, Name1A, Name2A, Name11A, Name1}

\* Prefix-closed sets of at most n paths, none deeper than MaxDepth.
RECURSIVE Shapes(_)
Shapes(n) ==
  IF n = 0 THEN {{}}
  ELSE LET prev == Shapes(n - 1)
       IN  prev \cup UNION { { s \cup {Append(p, nm)} :
                                 p \in {q \in s \cup {<<>>} : Len(q) < MaxDepth},
                                 nm \in TreeNames } : s \in prev }

\* git tracks files only: every leaf is a file, every inner node a directory.
GitTree(s) ==
  [p \in s |-> IF \E q \in s : q # p /\ IsPrefix(p, q)
               THEN DirNode ELSE FileNode("remote", p)]

\* The docs subtree of the upstream commit; the empty tree stands for an
\* upstream without a docs directory.
RemoteTrees == {GitTree(s) : s \in Shapes(MaxNodes)}

\* ------------------------------------------------- filesystem primitives
\* fs.readdirSync(dirPath, { withFileTypes: true }): the entries of dirPath.
Dirents(t, dirPath) ==
  {[name |-> q[Len(q)], isDirectory |-> t[q].kind = "dir"] : q \in Children(t, dirPath)}

\* The orders in which a directory listing can come back.
Listings(S) ==
  {f \in [1..Cardinality(S) -> S] : \A i, j \in 1..Cardinality(S) : f[i] = f[j] => i = j}

\* A rename that refuses to replace an existing entry.
RenameErrorExclusive(t, oldPath, newPath) ==
  IF ~Exists(t, oldPath) THEN "ENOENT"
  ELSE IF Exists(t, newPath) THEN "EEXIST"
  ELSE ""

\* The error of rename(2) for fs.renameSync(oldPath, newPath), "" if none.
RenameError(t, oldPath, newPath) ==
  IF ~Exists(t, oldPath) THEN "ENOENT"
  ELSE IF oldPath # newPath /\ IsPrefix(oldPath, newPath) THEN "EINVAL"
  ELSE IF ~Exists(t, newPath) THEN ""
  ELSE IF IsDir(t, oldPath) /\ ~IsDir(t, newPath) THEN "ENOTDIR"
  ELSE IF ~IsDir(t, oldPath) /\ IsDir(t, newPath) THEN "EISDIR"
  ELSE IF IsDir(t, newPath) /\ Children(t, newPath) # {} THEN "ENOTEMPTY"
  ELSE ""

\* The tree after a rename that raised no error: oldPath and everything
\* below it now live at newPath, replacing what was there.
Renamed(t, oldPath, newPath) ==
  LET kept == {q \in DOMAIN t : ~IsPrefix(oldPath, q) /\ ~IsPrefix(newPath, q)}
      moved == {q \in DOMAIN t : IsPrefix(oldPath, q)}
      Target(q) == newPath \o SubSeq(q, Len(oldPath) + 1, Len(q))
      Origin(r) == oldPath \o SubSeq(r, Len(newPath) + 1, Len(r))
  IN  [r \in kept \cup {Target(q) : q \in moved} |->
         IF r \in kept THEN t[r] ELSE t[Origin(r)]]

\* fs.cpSync(src, dst, { recursive, force, errorOnExist: false }) refuses to
\* put a file where a directory is and a directory where a file is.
CopyConflict(src, dst) ==
  \E p \in DOMAIN src \cap DOMAIN dst : src[p].kind # dst[p].kind

\* A copy that does not descend into directories.
CopiedShallow(src, dst) ==
  [p \in {q \in DOMAIN src : Len(q) = 1} \cup DOMAIN dst |->
     IF p \in DOMAIN src THEN src[p] ELSE dst[p]]

\* The destination after the copy: the entries of src are written over dst,
\* the other entries of dst stay.
Copied(src, dst) ==
  [p \in DOMAIN src \cup DOMAIN dst |-> IF p \in DOMAIN src THEN src[p] ELSE dst[p]]

\* ------------------------------------------------------------------ state
VARIABLES
  remote,        \* docs subtree of the upstream commit
  cacheExists,   \* cacheDir exists
  repo,          \* repository in cacheDir: none, broken, cloned, populated
  docsExists,    \* docsDir (cacheDir/docs) exists
  docs,          \* the tree below docsDir
  destExists,    \* docsPath (src/content/docs/docs) exists
  dest,          \* the tree below docsPath
  preDestExists, \* docsPath existed before the run
  preDest,       \* the tree below docsPath before the run
  checkedOut,    \* the tree below docsDir as git left it
  pc,            \* position of the script
  stack,         \* activations of renameAll, innermost last
  log,           \* the operations executed so far, with their outcome
  exitCode,      \* exit code of the process, -1 while it runs
  pass,          \* number of the normalization pass (0 inside the script)
  visits,        \* the loop iterations of renameAll so far, in order
  prior,         \* how the previous run on these directories ended
  outside,       \* the files next to docsPath in src/content/docs
  suspended,     \* the process that is not running now, if there are two
  input,         \* name handed to stripPrefix
  output         \* name stripPrefix returned

vars == <<remote, cacheExists, repo, docsExists, docs, destExists, dest,
          preDestExists, preDest, checkedOut, pc, stack, log, exitCode, pass,
          visits, prior, outside, suspended, input, output>>

cacheVars == <<cacheExists, repo, docsExists, docs>>
destVars == <<destExists, dest>>
frameVars == <<remote, preDestExists, preDest, pass, prior, outside, suspended,
               input, output>>

\* What a previous complete run left in the cache, and what it published.
StaleTree == (<<NameA>> :> FileNode("stale", <<NameA>>))

\* The same with a repository that is no longer usable.
StaleRepos == {"populated", "broken"}

OldTrees ==
  { (<<NameA>> :> FileNode("old", <<NameA>>)),
    (<<NameA>> :> DirNode) @@ (<<NameA, Name1A>> :> FileNode("old", <<NameA, Name1A>>)) }

\* The names git gives to what a clone holds beside the docs directory.
DocsName == <<"d", "o", "c", "s">>
GitDirName == <<".", "g", "i", "t">>
RootFileName == <<"r">>

\* Everything below cacheDir: the metadata of a repository, the files of
\* the repository root a populated work tree has, and the docs directory
\* with the tree d below it.
CacheTree(rp, dExists, d) ==
  LET meta == IF rp = "none" THEN EmptyTree
              ELSE (<<GitDirName>> :> DirNode)
                   @@ (<<GitDirName, NameA>> :> FileNode("git", <<GitDirName, NameA>>))
      root == IF rp = "populated"
              THEN (<<RootFileName>> :> FileNode("root", <<RootFileName>>))
              ELSE EmptyTree
      sub == IF dExists
             THEN (<<DocsName>> :> DirNode)
                  @@ [q \in {<<DocsName>> \o p : p \in DOMAIN d} |-> d[Tail(q)]]
             ELSE EmptyTree
  IN  meta @@ root @@ sub

\* The tree below the directory dir of t.
Subtree(t, dir) ==
  [p \in {Tail(q) : q \in {r \in DOMAIN t : Len(r) > 1 /\ Head(r) = dir}} |->
     t[<<dir>> \o p]]

\* What the site keeps in src/content/docs next to the published copy.
SiteTree == (<<NameA>> :> FileNode("site", <<NameA>>))

Logged(op, result) == Append(log, [op |-> op, result |-> result])

GitOps == {"clone", "sparse-checkout", "checkout"}

\* The script starts with an arbitrary upstream subtree, a cache that is
\* absent or left by a previous run, and a destination that is absent or
\* holds a previously published copy.
Init ==
  /\ remote \in RemoteTrees
  /\ \/ cacheExists = FALSE /\ repo = "none" /\ docsExists = FALSE /\ docs = EmptyTree
     \/ cacheExists = TRUE /\ repo \in StaleRepos /\ docsExists = TRUE /\ docs = StaleTree
  /\ \/ destExists = FALSE /\ dest = EmptyTree
     \/ destExists = TRUE /\ dest \in OldTrees
  /\ preDestExists = destExists
  /\ preDest = dest
  /\ checkedOut = EmptyTree
  /\ pc = "reset_cache"
  /\ stack = <<>>
  /\ log = <<>>
  /\ exitCode = -1
  /\ pass = 0
  /\ visits = <<>>
  /\ prior = "none"
  /\ outside = SiteTree
  /\ suspended = <<>>
  /\ input = <<>>
  /\ output = <<>>

\* An exception that is reported and passed over: the script goes on with
\* the statement after the one that threw.
ThrowIgnored(lg, op) ==
  /\ pc' = (CASE op = "rm_cache" -> "clone"
              [] op = "chdir" -> "sparse"
              [] op \in {"readdir", "rename"} -> "rm_docs"
              [] op = "rm_docs" -> "copy"
              [] OTHER -> "done")
  /\ exitCode' = IF op = "cp" THEN 0 ELSE exitCode
  /\ log' = Append(lg, [op |-> op, result |-> "throw"])

\* An exception nobody catches ends the process with a non-zero exit code.
Throw(lg, op) ==
  /\ pc' = "failed"
  /\ exitCode' = 1
  /\ log' = Append(lg, [op |-> op, result |-> "throw"])

Uncaught(op) == Throw(log, op)

\* ---------------------------------------------------------- step 1: cache
\* if (fs.existsSync(cacheDir)) fs.rmSync(cacheDir, { recursive, force })
ResetCacheSkipped ==
  /\ pc = "reset_cache"
  /\ pc' = "clone"
  /\ UNCHANGED <<cacheVars, destVars, frameVars, visits, checkedOut, stack, log, exitCode>>

\* The reset removes docsPath where it should remove cacheDir.
ResetCacheWrongDir ==
  /\ pc = "reset_cache"
  /\ pc' = "clone"
  /\ destExists' = FALSE
  /\ dest' = EmptyTree
  /\ log' = Logged("rm_cache", "ok")
  /\ UNCHANGED <<cacheVars, frameVars, visits, checkedOut, stack, exitCode>>

\* A reset without the existence test and without force: a missing cache
\* is an error.
ResetCacheStrict ==
  /\ pc = "reset_cache"
  /\ IF ~cacheExists
     THEN Uncaught("rm_cache") /\ UNCHANGED cacheVars
     ELSE /\ cacheExists' = FALSE
          /\ repo' = "none"
          /\ docsExists' = FALSE
          /\ docs' = EmptyTree
          /\ pc' = "clone"
          /\ log' = Logged("rm_cache", "ok")
          /\ UNCHANGED exitCode
  /\ UNCHANGED <<destVars, frameVars, visits, checkedOut, stack>>

ResetCache ==
  /\ pc = "reset_cache"
  /\ IF ~cacheExists
     THEN /\ pc' = "clone"
          /\ UNCHANGED <<cacheVars, log, exitCode>>
     ELSE \/ /\ cacheExists' = FALSE
             /\ repo' = "none"
             /\ docsExists' = FALSE
             /\ docs' = EmptyTree
             /\ pc' = "clone"
             /\ log' = Logged("rm_cache", "ok")
             /\ UNCHANGED exitCode
          \/ \* the deletion fails part-way (permission denied)
             /\ \E left \in PartialTrees(docs) :
                  /\ docs' = left
                  /\ docsExists' \in (IF left = EmptyTree THEN {docsExists, FALSE} ELSE {TRUE})
             /\ repo' \in {repo, "broken"}
             /\ UNCHANGED cacheExists
             /\ Uncaught("rm_cache")
  /\ UNCHANGED <<destVars, frameVars, visits, checkedOut, stack>>

\* ------------------------------------------------------------ step 2: git
\* How a spawned command can end: exit status 0, a failed child (non-zero
\* status or killed), or a child that could not be launched (result.error).
GitOutcomes == {"ok", "nonzero", "error"}

\* run(command, args) ends the process only when spawn.sync reports
\* result.error; the exit status of the child is not looked at.
RunExits(outcome) == outcome = "error"

\* A run() that starts the command again when it exited with a failure.
AfterRunRetry(op, outcome, next) ==
  /\ log' = Logged(op, outcome)
  /\ IF RunExits(outcome)
     THEN pc' = "failed" /\ exitCode' = 1
     ELSE pc' = (IF outcome = "nonzero" THEN pc ELSE next) /\ UNCHANGED exitCode

\* The script after run() handed back outcome: process.exit(1) or go on.
AfterRun(op, outcome, next) ==
  /\ log' = Logged(op, outcome)
  /\ IF RunExits(outcome)
     THEN pc' = "failed" /\ exitCode' = 1
     ELSE pc' = next /\ UNCHANGED exitCode

\* run("git", ["clone", "--depth", "1", "--no-checkout", url, cacheDir])
\* git clones only into a missing or empty directory; a clone that fails
\* removes what it created, a killed one leaves an unusable repository.
Clone ==
  /\ pc = "clone"
  /\ \E outcome \in GitOutcomes :
       /\ outcome = "ok" => ~cacheExists
       /\ CASE outcome = "ok" ->
                 /\ cacheExists' = TRUE
                 /\ repo' = "cloned"
                 /\ docsExists' = FALSE
                 /\ docs' = EmptyTree
            [] outcome = "nonzero" /\ ~cacheExists ->
                 /\ cacheExists' \in BOOLEAN
                 /\ repo' = IF cacheExists' THEN "broken" ELSE "none"
                 /\ UNCHANGED <<docsExists, docs>>
            [] OTHER -> UNCHANGED cacheVars
       /\ AfterRun("clone", outcome, "chdir")
  /\ UNCHANGED <<destVars, frameVars, visits, checkedOut, stack>>

\* process.chdir(cacheDir) throws when the directory is missing or closed.
Chdir ==
  /\ pc = "chdir"
  /\ \E fault \in BOOLEAN :
       IF ~cacheExists \/ fault
       THEN Uncaught("chdir")
       ELSE pc' = "sparse" /\ log' = Logged("chdir", "ok") /\ UNCHANGED exitCode
  /\ UNCHANGED <<cacheVars, destVars, frameVars, visits, checkedOut, stack>>

\* run("git", ["sparse-checkout", "set", "docs"]): succeeds only inside a
\* usable repository and writes nothing below docs.
SparseCheckout ==
  /\ pc = "sparse"
  /\ \E outcome \in GitOutcomes :
       /\ outcome = "ok" => repo \in {"cloned", "populated"}
       /\ AfterRun("sparse-checkout", outcome, "checkout")
  /\ UNCHANGED <<cacheVars, destVars, frameVars, visits, checkedOut, stack>>

\* run("git", ["checkout"]): populates the work tree of a fresh clone with
\* the upstream files, leaves an already populated work tree as it is, and
\* can fail after having written only part of the files.
Checkout ==
  /\ pc = "checkout"
  /\ \E outcome \in GitOutcomes :
       /\ outcome = "ok" => repo \in {"cloned", "populated"}
       /\ CASE outcome = "ok" /\ repo = "cloned" ->
                 /\ docs' = remote
                 /\ docsExists' = (remote # EmptyTree)
                 /\ repo' = "populated"
            [] outcome = "nonzero" /\ repo = "cloned" ->
                 /\ docs' \in PartialTrees(remote)
                 /\ docsExists' \in (IF docs' # EmptyTree THEN {TRUE}
                                     ELSE IF remote # EmptyTree THEN BOOLEAN
                                     ELSE {FALSE})
                 /\ repo' = "populated"
            [] OTHER -> UNCHANGED <<docs, docsExists, repo>>
       /\ AfterRun("checkout", outcome, "rename")
  /\ checkedOut' = docs'
  /\ UNCHANGED <<cacheExists, destVars, frameVars, visits, stack>>

\* ------------------------------------------------------ step 3: renameAll
Top == stack[Len(stack)]

\* A loop that leaves after its first item.
RestOfBreak(items) == <<>>

\* for (const item of items): the items still to visit after this one.
RestOf(items) == Tail(items)

\* A walk that takes a missing directory for an empty one.
RenameAllStartLenient ==
  /\ pc = "rename"
  /\ \E items \in Listings(Dirents(docs, <<>>)) :
       stack' = <<[dirPath |-> <<>>, items |-> items]>>
  /\ pc' = "renaming"
  /\ log' = Logged("readdir", "ok")
  /\ UNCHANGED <<cacheVars, destVars, frameVars, visits, checkedOut, exitCode>>

\* renameAll(docsDir): the outermost call reads the listing of docsDir.
RenameAllStart ==
  /\ pc = "rename"
  /\ \E fault \in BOOLEAN :
       IF ~docsExists \/ fault
       THEN Uncaught("readdir") /\ UNCHANGED stack
       ELSE /\ \E items \in Listings(Dirents(docs, <<>>)) :
                 stack' = <<[dirPath |-> <<>>, items |-> items]>>
            /\ pc' = "renaming"
            /\ log' = Logged("readdir", "ok")
            /\ UNCHANGED exitCode
  /\ UNCHANGED <<cacheVars, destVars, frameVars, visits, checkedOut>>

\* What fs.renameSync finds at newPath.
Occupant(t, newPath) ==
  IF ~Exists(t, newPath) THEN "none"
  ELSE IF IsDir(t, newPath) THEN "dir" ELSE "file"

\* The record of one loop iteration: the entry visited, the path it was
\* to get, what lay at both paths, and how the iteration went on.
Visit(t, oldPath, newPath, result) ==
  [from |-> oldPath, to |-> newPath,
   found |-> Exists(t, oldPath),
   node |-> IF oldPath \in DOMAIN t THEN t[oldPath] ELSE DirNode,
   over |-> Occupant(t, newPath),
   result |-> result]

\* One iteration of the loop of renameAll: rename the entry when its name
\* changes, then descend into it when the listing called it a directory.
RenameItem ==
  /\ pc = "renaming"
  /\ stack # <<>>
  /\ Top.items # <<>>
  /\ LET dirPath == Top.dirPath
         item == Head(Top.items)
         oldPath == Join(dirPath, item.name)
         newName == stripPrefix(item.name)
         newPath == Join(dirPath, newName)
         moves == oldPath # newPath
         after == IF moves THEN Renamed(docs, oldPath, newPath) ELSE docs
         lg == IF moves THEN Logged("rename", "ok") ELSE log
         rest == [stack EXCEPT ![Len(stack)].items = RestOf(Top.items)]
     IN  \E fault \in {"none", "rename", "readdir"} :
           IF moves /\ (fault = "rename" \/ RenameError(docs, oldPath, newPath) # "")
           THEN /\ Uncaught("rename")
                /\ visits' = Append(visits, Visit(docs, oldPath, newPath,
                                IF fault = "rename" THEN "fault"
                                ELSE RenameError(docs, oldPath, newPath)))
                /\ UNCHANGED <<docs, stack>>
           ELSE /\ docs' = after
                /\ visits' = Append(visits, Visit(docs, oldPath, newPath,
                                IF moves THEN "renamed" ELSE "kept"))
                /\ IF ~item.isDirectory
                   THEN /\ stack' = rest
                        /\ log' = lg
                        /\ UNCHANGED <<pc, exitCode>>
                   ELSE IF fault = "readdir" \/ ~IsDir(after, newPath)
                   THEN Throw(lg, "readdir") /\ UNCHANGED stack
                   ELSE /\ \E items \in Listings(Dirents(after, newPath)) :
                             stack' = Append(rest, [dirPath |-> newPath, items |-> items])
                        /\ log' = Append(lg, [op |-> "readdir", result |-> "ok"])
                        /\ UNCHANGED <<pc, exitCode>>
  /\ UNCHANGED <<cacheExists, repo, docsExists, destVars, frameVars, checkedOut>>

\* A nested call of renameAll has visited all its items and returns.
RenameAllReturn ==
  /\ pc = "renaming"
  /\ Len(stack) > 1
  /\ Top.items = <<>>
  /\ stack' = SubSeq(stack, 1, Len(stack) - 1)
  /\ UNCHANGED <<cacheVars, destVars, frameVars, visits, checkedOut, pc, log, exitCode>>

\* renameAll(docsDir) returns to the script.
RenameAllDone ==
  /\ pc = "renaming"
  /\ pass = 0
  /\ Len(stack) = 1
  /\ Top.items = <<>>
  /\ stack' = <<>>
  /\ pc' = "rm_docs"
  /\ UNCHANGED <<cacheVars, destVars, frameVars, visits, checkedOut, log, exitCode>>

\* ---------------------------------------------------- step 4: destination
\* The old copy is left where it is.
DeleteDocsSkipped ==
  /\ pc = "rm_docs"
  /\ pc' = "copy"
  /\ UNCHANGED <<cacheVars, destVars, frameVars, visits, checkedOut, stack, log, exitCode>>

\* The deletion takes contentPath, the directory around docsPath.
DeleteDocsContentPath ==
  /\ pc = "rm_docs"
  /\ destExists' = FALSE
  /\ dest' = EmptyTree
  /\ outside' = EmptyTree
  /\ pc' = "copy"
  /\ log' = Logged("rm_docs", "ok")
  /\ UNCHANGED <<cacheVars, remote, preDestExists, preDest, pass, prior, suspended,
                 input, output, visits, checkedOut, stack, exitCode>>

\* if (fs.existsSync(docsPath)) fs.rmSync(docsPath, { recursive, force })
DeleteDocs ==
  /\ pc = "rm_docs"
  /\ IF ~destExists
     THEN /\ pc' = "copy"
          /\ UNCHANGED <<destVars, log, exitCode>>
     ELSE \/ /\ destExists' = FALSE
             /\ dest' = EmptyTree
             /\ pc' = "copy"
             /\ log' = Logged("rm_docs", "ok")
             /\ UNCHANGED exitCode
          \/ \* the deletion fails part-way
             /\ dest' \in PartialTrees(dest)
             /\ UNCHANGED destExists
             /\ Uncaught("rm_docs")
  /\ UNCHANGED <<cacheVars, frameVars, visits, checkedOut, stack>>

\* ----------------------------------------------------------- step 5: copy
\* A copy that takes cacheDir, not docsDir, as its source.
CopyWholeCache ==
  /\ pc = "copy"
  /\ IF ~cacheExists
     THEN Uncaught("cp") /\ UNCHANGED destVars
     ELSE /\ ~CopyConflict(CacheTree(repo, docsExists, docs), dest)
          /\ dest' = Copied(CacheTree(repo, docsExists, docs), dest)
          /\ destExists' = TRUE
          /\ pc' = "done"
          /\ exitCode' = 0
          /\ log' = Logged("cp", "ok")
  /\ UNCHANGED <<cacheVars, frameVars, visits, checkedOut, stack>>

\* fs.cpSync(docsDir, docsPath, { recursive, force, errorOnExist: false })
Copy ==
  /\ pc = "copy"
  /\ \E fault \in BOOLEAN :
       IF ~docsExists
       THEN Uncaught("cp") /\ UNCHANGED destVars
       ELSE IF fault \/ CopyConflict(docs, dest)
       THEN /\ \E part \in PartialTrees(docs) :
                 /\ ~CopyConflict(part, dest)
                 /\ CopyConflict(docs, dest) => part # docs
                 /\ dest' = Copied(part, dest)
            /\ destExists' \in (IF dest' = EmptyTree THEN {destExists, TRUE} ELSE {TRUE})
            /\ Uncaught("cp")
       ELSE /\ dest' = Copied(docs, dest)
            /\ destExists' = TRUE
            /\ pc' = "done"
            /\ exitCode' = 0
            /\ log' = Logged("cp", "ok")
  /\ UNCHANGED <<cacheVars, frameVars, visits, checkedOut, stack>>

\* ------------------------------------------------------------- the script
Next ==
  \/ ResetCache
  \/ Clone
  \/ Chdir
  \/ SparseCheckout
  \/ Checkout
  \/ RenameAllStart
  \/ RenameItem
  \/ RenameAllReturn
  \/ RenameAllDone
  \/ DeleteDocs
  \/ Copy

Spec == Init /\ [][Next]_vars

\* ------------------------------------------- stripPrefix on its own
InitStrip ==
  /\ input \in AllNames
  /\ output = <<>>
  /\ pc = "strip"
  /\ remote = EmptyTree
  /\ cacheExists = FALSE /\ repo = "none" /\ docsExists = FALSE /\ docs = EmptyTree
  /\ destExists = FALSE /\ dest = EmptyTree
  /\ preDestExists = FALSE /\ preDest = EmptyTree
  /\ checkedOut = EmptyTree
  /\ stack = <<>>
  /\ log = <<>>
  /\ exitCode = -1
  /\ pass = 0
  /\ visits = <<>>
  /\ prior = "none"
  /\ outside = SiteTree
  /\ suspended = <<>>

StripName ==
  /\ pc = "strip"
  /\ output' = stripPrefix(input)
  /\ pc' = "stripped"
  /\ UNCHANGED <<remote, cacheVars, destVars, preDestExists, preDest, checkedOut,
                 stack, log, exitCode, pass, visits, prior, outside, suspended,
                 input>>

NextStrip == StripName

SpecStrip == InitStrip /\ [][NextStrip]_vars

\* --------------------------------------------- renameAll applied twice
\* Trees as a directory can hold them: a leaf is a file or an empty directory.
LocalTrees ==
  UNION { {t \in [s -> {DirNode} \cup {FileNode("remote", p) : p \in s}] :
             \A p \in s :
               /\ (\E q \in s : q # p /\ IsPrefix(p, q)) => t[p] = DirNode
               /\ t[p].kind = "file" => t[p].at = p} : s \in Shapes(MaxNodes) }

InitTwice ==
  /\ docs \in LocalTrees
  /\ checkedOut = docs
  /\ cacheExists = TRUE /\ repo = "populated" /\ docsExists = TRUE
  /\ pc = "rename"
  /\ pass = 1
  /\ remote = EmptyTree
  /\ destExists = FALSE /\ dest = EmptyTree
  /\ preDestExists = FALSE /\ preDest = EmptyTree
  /\ stack = <<>>
  /\ log = <<>>
  /\ exitCode = -1
  /\ visits = <<>>
  /\ prior = "none"
  /\ outside = SiteTree
  /\ suspended = <<>>
  /\ input = <<>>
  /\ output = <<>>

\* The first renameAll(docsDir) has returned; it is called again.
SecondPass ==
  /\ pc = "renaming"
  /\ pass = 1
  /\ Len(stack) = 1
  /\ Top.items = <<>>
  /\ stack' = <<>>
  /\ pc' = "rename"
  /\ pass' = 2
  /\ UNCHANGED <<remote, cacheVars, destVars, preDestExists, preDest, checkedOut,
                 log, exitCode, visits, prior, outside, suspended, input, output>>

\* The second renameAll(docsDir) has returned.
TwiceDone ==
  /\ pc = "renaming"
  /\ pass = 2
  /\ Len(stack) = 1
  /\ Top.items = <<>>
  /\ stack' = <<>>
  /\ pc' = "done"
  /\ UNCHANGED <<cacheVars, destVars, frameVars, visits, checkedOut, log, exitCode>>

NextTwice ==
  \/ RenameAllStart
  \/ RenameItem
  \/ RenameAllReturn
  \/ SecondPass
  \/ TwiceDone

SpecTwice == InitTwice /\ [][NextTwice]_vars

\* renameAll is synchronous code: as long as a statement of it can run,
\* one does.
SpecWalk == SpecTwice /\ WF_vars(NextTwice)

\* ------------------------------------------- the script run a second time
MaxAgainNodes == 2

\* The upstream subtrees of the runs that are followed by a second run.
AgainTrees == {GitTree(s) : s \in Shapes(MaxAgainNodes)}

InitAgain ==
  /\ remote \in AgainTrees
  /\ \/ cacheExists = FALSE /\ repo = "none" /\ docsExists = FALSE /\ docs = EmptyTree
     \/ cacheExists = TRUE /\ repo \in StaleRepos /\ docsExists = TRUE /\ docs = StaleTree
  /\ \/ destExists = FALSE /\ dest = EmptyTree
     \/ destExists = TRUE /\ dest \in OldTrees
  /\ preDestExists = destExists
  /\ preDest = dest
  /\ checkedOut = EmptyTree
  /\ pc = "reset_cache"
  /\ stack = <<>>
  /\ log = <<>>
  /\ exitCode = -1
  /\ pass = 0
  /\ visits = <<>>
  /\ prior = "none"
  /\ outside = SiteTree
  /\ suspended = <<>>
  /\ input = <<>>
  /\ output = <<>>

\* The process is killed. Nothing is undone: the statement it was in has
\* had any part of its effect, the statements after it none.
Interrupt ==
  /\ pc \in {"reset_cache", "clone", "chdir", "sparse", "checkout",
             "rename", "renaming", "rm_docs", "copy"}
  /\ CASE pc = "reset_cache" /\ cacheExists ->
            /\ \E left \in PartialTrees(docs) :
                 /\ docs' = left
                 /\ docsExists' \in (IF left = EmptyTree THEN {docsExists, FALSE} ELSE {TRUE})
            /\ repo' \in {repo, "broken"}
            /\ UNCHANGED <<cacheExists, destVars, checkedOut>>
       [] pc = "clone" /\ ~cacheExists ->
            /\ cacheExists' \in BOOLEAN
            /\ repo' = IF cacheExists' THEN "broken" ELSE "none"
            /\ UNCHANGED <<docsExists, docs, destVars, checkedOut>>
       [] pc = "checkout" /\ repo = "cloned" ->
            /\ docs' \in PartialTrees(remote)
            /\ docsExists' \in (IF docs' # EmptyTree THEN {TRUE}
                                ELSE IF remote # EmptyTree THEN BOOLEAN
                                ELSE {FALSE})
            /\ repo' \in {"populated", "broken"}
            /\ checkedOut' = docs'
            /\ UNCHANGED <<cacheExists, destVars>>
       [] pc = "rm_docs" /\ destExists ->
            /\ dest' \in PartialTrees(dest)
            /\ UNCHANGED <<destExists, cacheVars, checkedOut>>
       [] pc = "copy" /\ docsExists ->
            /\ \E part \in PartialTrees(docs) :
                 /\ ~CopyConflict(part, dest)
                 /\ dest' = Copied(part, dest)
            /\ destExists' \in (IF dest' = EmptyTree THEN {destExists, TRUE} ELSE {TRUE})
            /\ UNCHANGED <<cacheVars, checkedOut>>
       [] OTHER -> UNCHANGED <<cacheVars, destVars, checkedOut>>
  /\ pc' = "killed"
  /\ exitCode' = 137
  /\ UNCHANGED <<frameVars, visits, stack, log>>

\* The script is started again on the directories the previous process
\* left, against the same upstream. prior keeps how that process ended:
\* killed, completed with every command it ran successful, or otherwise.
Restart ==
  /\ prior = "none"
  /\ pass = 0
  /\ pc \in {"done", "failed", "killed"}
  /\ prior' = (IF pc = "killed" THEN "killed"
               ELSE IF pc = "done" /\ \A i \in 1..Len(log) : log[i].result = "ok"
               THEN "success" ELSE "failed")
  /\ preDestExists' = destExists
  /\ preDest' = dest
  /\ checkedOut' = EmptyTree
  /\ pc' = "reset_cache"
  /\ stack' = <<>>
  /\ log' = <<>>
  /\ exitCode' = -1
  /\ visits' = <<>>
  /\ UNCHANGED <<remote, cacheVars, destVars, pass, outside, suspended, input, output>>

NextAgain ==
  \/ ResetCache
  \/ Clone
  \/ Chdir
  \/ SparseCheckout
  \/ Checkout
  \/ RenameAllStart
  \/ RenameItem
  \/ RenameAllReturn
  \/ RenameAllDone
  \/ DeleteDocs
  \/ Copy
  \/ Interrupt
  \/ Restart

SpecAgain == InitAgain /\ [][NextAgain]_vars

\* ------------------------------------------ two processes, one site
MaxRaceNodes == 2

\* The names of the upstream subtrees of the runs that share their
\* directories: an unprefixed and a prefixed one.
RaceNames == {NameA, Name1A}

RaceTrees ==
  {GitTree(s) : s \in {x \in Shapes(MaxRaceNodes) :
                         \A p \in x : \A i \in 1..Len(p) : p[i] \in RaceNames}}

\* What a process keeps to itself: where it is in the script, the
\* activations of renameAll, what it has executed and its exit code.
Process(at, stk, lg, code, vs, co) ==
  [pc |-> at, stack |-> stk, log |-> lg, exitCode |-> code, visits |-> vs,
   checkedOut |-> co]

\* Two processes are started on the same cacheDir and docsPath; nothing
\* in the script makes one wait for the other.
InitRace ==
  /\ remote \in RaceTrees
  /\ cacheExists = FALSE /\ repo = "none" /\ docsExists = FALSE /\ docs = EmptyTree
  /\ \/ destExists = FALSE /\ dest = EmptyTree
     \/ destExists = TRUE /\ dest \in OldTrees
  /\ preDestExists = destExists
  /\ preDest = dest
  /\ checkedOut = EmptyTree
  /\ pc = "reset_cache"
  /\ stack = <<>>
  /\ log = <<>>
  /\ exitCode = -1
  /\ pass = 0
  /\ visits = <<>>
  /\ prior = "none"
  /\ outside = SiteTree
  /\ suspended = <<Process("reset_cache", <<>>, <<>>, -1, <<>>, EmptyTree)>>
  /\ input = <<>>
  /\ output = <<>>

\* The scheduler takes the processor from the running process and gives
\* it to the other one, which has not ended; the directories stay as they
\* are.
Switch ==
  /\ suspended # <<>>
  /\ suspended[1].pc \notin {"done", "failed"}
  /\ pc' = suspended[1].pc
  /\ stack' = suspended[1].stack
  /\ log' = suspended[1].log
  /\ exitCode' = suspended[1].exitCode
  /\ visits' = suspended[1].visits
  /\ checkedOut' = suspended[1].checkedOut
  /\ suspended' = <<Process(pc, stack, log, exitCode, visits, checkedOut)>>
  /\ UNCHANGED <<cacheVars, destVars, remote, preDestExists, preDest, pass, prior,
                 outside, input, output>>

NextRace ==
  \/ ResetCache
  \/ Clone
  \/ Chdir
  \/ SparseCheckout
  \/ Checkout
  \/ RenameAllStart
  \/ RenameItem
  \/ RenameAllReturn
  \/ RenameAllDone
  \/ DeleteDocs
  \/ Copy
  \/ Switch

SpecRace == InitRace /\ [][NextRace]_vars

\* --------------------------------------------- renameAll as a function
\* The trees renameAll(dirPath) can leave of t when nothing fails from
\* outside, over all orders of the listings; none when a rename throws.
RECURSIVE RenameAllIn(_, _), RenameItemsIn(_, _, _)
RenameItemsIn(t, dirPath, items) ==
  IF items = <<>> THEN {t}
  ELSE LET item == Head(items)
           oldPath == Join(dirPath, item.name)
           newPath == Join(dirPath, stripPrefix(item.name))
           moves == oldPath # newPath
           after == IF moves THEN Renamed(t, oldPath, newPath) ELSE t
       IN  IF moves /\ RenameError(t, oldPath, newPath) # "" THEN {}
           ELSE IF item.isDirectory /\ ~IsDir(after, newPath) THEN {}
           ELSE UNION { RenameItemsIn(u, dirPath, RestOf(items)) :
                          u \in (IF item.isDirectory
                                 THEN RenameAllIn(after, newPath)
                                 ELSE {after}) }

RenameAllIn(t, dirPath) ==
  UNION { RenameItemsIn(t, dirPath, items) : items \in Listings(Dirents(t, dirPath)) }

\* ================================================================= claims
\* The normalization the specification refers to: a name matching
\* ^[0-9]+-(.+)$ becomes the captured remainder, any other name stays.
RefMatches(name) ==
  \E k \in 1..Len(name) :
    /\ \A i \in 1..k : name[i] \in Digits
    /\ k + 2 <= Len(name)
    /\ name[k + 1] = "-"

RefNormalize(name) ==
  IF RefMatches(name)
  THEN LET k == CHOOSE j \in 1..Len(name) :
                  (\A i \in 1..j : name[i] \in Digits) /\ name[j + 1] = "-"
       IN  SubSeq(name, k + 2, Len(name))
  ELSE name

\* Segment-by-segment normalization of a path.
NormPath(p) == [i \in 1..Len(p) |-> RefNormalize(p[i])]

Last(p) == p[Len(p)]

\* The name starts with <digits>-.
StartsWithPrefix(name) ==
  \E k \in 1..Len(name) :
    k < Len(name) /\ name[k + 1] = "-" /\ \A i \in 1..k : name[i] \in Digits

GitFailed == \E i \in 1..Len(log) : log[i].op \in GitOps /\ log[i].result # "ok"

Ended == pc \in {"done", "failed"}

\* The run went through its five steps and no git invocation failed.
Success == pc = "done" /\ ~GitFailed

DestUntouched == destExists = preDestExists /\ dest = preDest

\* Two entries of one directory of t clash: the normalized name of one is
\* the original or the normalized name of the other.
Clash(t) ==
  \E p, q \in DOMAIN t :
    /\ p # q
    /\ Parent(p) = Parent(q)
    /\ RefNormalize(Last(p)) \in {Last(q), RefNormalize(Last(q))}

\* A name of t carries a stacked prefix: its remainder starts with <digits>-.
Stacked(t) == \E p \in DOMAIN t : StartsWithPrefix(RefNormalize(Last(p)))

\* C1: after a successful run every path of the destination is the
\* segment-wise normalization of a path of the checked-out subtree, whatever
\* the destination held before; nothing of the previous content survives.
C1_DestPathsAreNormalizedSourcePaths ==
  Success => DOMAIN dest \subseteq {NormPath(p) : p \in DOMAIN checkedOut}

\* A prefixed file below a prefixed directory has been published at its
\* normalized path, over a destination that held a path the new subtree
\* does not produce.
C1_Witness ==
  /\ Success
  /\ \E p \in DOMAIN checkedOut :
       /\ Len(p) = 2
       /\ StartsWithPrefix(p[1]) /\ StartsWithPrefix(p[2])
       /\ NormPath(p) \in DOMAIN dest
  /\ \E q \in DOMAIN preDest : q \notin DOMAIN dest

\* C2 as stated: after a successful run every file of the checked-out
\* subtree is in the destination at its normalized path with the same
\* content, and every directory is a directory at its normalized path.
C2_Original ==
  Success =>
    \A p \in DOMAIN checkedOut :
      /\ NormPath(p) \in DOMAIN dest
      /\ dest[NormPath(p)] = checkedOut[p]

\* C2 amended: the same, for a subtree in which no two entries of a
\* directory clash.
C2_CopyOfClashFreeSubtree ==
  (Success /\ ~Clash(checkedOut)) =>
    \A p \in DOMAIN checkedOut :
      /\ NormPath(p) \in DOMAIN dest
      /\ dest[NormPath(p)] = checkedOut[p]

\* A clash-free subtree with a prefixed directory, a prefixed file in it
\* and a second entry next to the directory has been published.
C2_Witness ==
  /\ Success
  /\ ~Clash(checkedOut)
  /\ \E p, q \in DOMAIN checkedOut :
       /\ Len(p) = 2 /\ Len(q) = 1 /\ q # Parent(p)
       /\ StartsWithPrefix(p[1]) /\ StartsWithPrefix(p[2])
       /\ dest[NormPath(p)] = checkedOut[p]

\* C4 as stated: after a successful run no name in the destination starts
\* with <digits>-.
C4_Original ==
  Success => \A p \in DOMAIN dest : ~StartsWithPrefix(Last(p))

\* C4 amended: after a successful run over a subtree without stacked
\* prefixes no name in the destination starts with <digits>-.
C4_NoPrefixLeftUnlessStacked ==
  (Success /\ ~Stacked(checkedOut)) => \A p \in DOMAIN dest : ~StartsWithPrefix(Last(p))

\* A subtree whose names all carried a single prefix has been published.
C4_Witness ==
  /\ Success
  /\ ~Stacked(checkedOut)
  /\ Cardinality(DOMAIN checkedOut) >= 2
  /\ \A p \in DOMAIN checkedOut : StartsWithPrefix(Last(p))
  /\ dest # EmptyTree

\* C3 as stated: stripPrefix returns the reference normalization of every
\* name: the captured remainder of a name matching ^[0-9]+-(.+)$, and the
\* name itself otherwise (digits followed by a bare hyphen included).
C3_StripPrefixIsReference ==
  pc = "stripped" => output = RefNormalize(input)

\* C5 as stated: the second renameAll over the result of the first changes
\* nothing, for every tree.
C5_Original == [][pass = 2 => docs' = docs]_vars

\* C5 amended: the second renameAll over the result of the first changes
\* nothing, for every tree without stacked prefixes.
C5_SecondPassChangesNothing ==
  [][(pass = 2 /\ ~Stacked(checkedOut)) => docs' = docs]_vars

\* Both passes have run over a tree without stacked prefixes in which the
\* first pass renamed a directory and an entry below it.
C5_Witness ==
  /\ pass = 2
  /\ pc = "done"
  /\ ~Stacked(checkedOut)
  /\ \E p \in DOMAIN checkedOut :
       /\ Len(p) = 2
       /\ StartsWithPrefix(p[1]) /\ StartsWithPrefix(p[2])
       /\ NormPath(p) \in DOMAIN docs

CloneFailed == \E i \in 1..Len(log) : log[i].op = "clone" /\ log[i].result # "ok"

Executed(op) == \E i \in 1..Len(log) : log[i].op = op

\* C6: once the clone has failed, the destination keeps its pre-run
\* content to the end of the run: neither the deletion of the destination
\* nor the copy is executed.
C6_FailedCloneLeavesDest ==
  CloneFailed => DestUntouched /\ ~Executed("rm_docs") /\ ~Executed("cp")

\* The run has ended after a clone that exited with a non-zero status,
\* with a published copy in place before the run.
C6_Witness ==
  /\ Ended
  /\ \E i \in 1..Len(log) : log[i].op = "clone" /\ log[i].result = "nonzero"
  /\ preDestExists
  /\ dest # EmptyTree

\* C7 as stated: a git invocation that fails (non-zero status or not
\* launched) ends the run at once: no git invocation, rename, deletion or
\* copy is executed after it, and the run does not complete.
C7_GitFailureEndsRun ==
  \A i \in 1..Len(log) :
    (log[i].op \in GitOps /\ log[i].result # "ok") =>
      /\ pc # "done"
      /\ \A j \in i + 1..Len(log) :
           log[j].op \notin GitOps \cup {"rename", "rm_cache", "rm_docs", "cp"}

AllStepsSucceeded ==
  pc = "done" /\ \A i \in 1..Len(log) : log[i].result = "ok"

\* C8 as stated: the exit code is 0 exactly when all five steps completed
\* successfully; no run in which a git invocation failed ends with 0.
C8_ExitCodeReportsFailure ==
  Ended => ((exitCode = 0) <=> AllStepsSucceeded)

FailedInSteps1to3 ==
  \E i \in 1..Len(log) :
    /\ log[i].op \in {"rm_cache", "chdir", "readdir", "rename"} \cup GitOps
    /\ log[i].result # "ok"

\* C9 as stated: when the cache reset, a git invocation or a rename has
\* failed, the destination at the end of the run is what it was before.
C9_FailureBeforeStep4LeavesDest ==
  (Ended /\ FailedInSteps1to3) => DestUntouched

\* C10: no file left in the cache by a previous run is ever in the
\* destination.
C10_NoLeftoverInDest ==
  \A p \in DOMAIN dest : dest[p].origin # "stale"

\* The run has deleted a cache that held leftover files, and has
\* published the new checkout.
C10_Witness ==
  /\ pc = "done"
  /\ \E i \in 1..Len(log) : log[i].op = "rm_cache" /\ log[i].result = "ok"
  /\ \E p \in DOMAIN dest : dest[p].origin = "remote"

\* The step of the pipeline an operation belongs to.
StepOf(op) ==
  CASE op = "rm_cache" -> 1
    [] op \in {"clone", "chdir", "sparse-checkout", "checkout"} -> 2
    [] op \in {"readdir", "rename"} -> 3
    [] op = "rm_docs" -> 4
    [] OTHER -> 5

LastOp == IF log = <<>> THEN "" ELSE log[Len(log)].op

\* renameAll(docsDir) has returned to the script.
NormalizationDone ==
  \/ pc \in {"rm_docs", "copy", "done"}
  \/ pc = "failed" /\ LastOp \in {"rm_docs", "cp"}

\* C12: the operations run in the order of the five steps; as long as the
\* normalization has not completed the destination is what it was before
\* the run; the copy starts with the destination deleted.
C12_StepsInOrderDestNotTouchedEarly ==
  /\ ~NormalizationDone => DestUntouched
  /\ \A i, j \in 1..Len(log) : i < j => StepOf(log[i].op) <= StepOf(log[j].op)
  /\ pc = "copy" => (~destExists /\ dest = EmptyTree)

\* The normalization is under way below a renamed directory and the
\* published copy is still in place.
C12_Witness ==
  /\ pc = "renaming"
  /\ Len(stack) = 2
  /\ \E i \in 1..Len(visits) : visits[i].result = "renamed"
  /\ preDestExists
  /\ dest = preDest

\* C16: an operation that throws is the last one executed, the run ends
\* with a non-zero exit code, and what had been deleted from the
\* destination before is not put back.
C16_ThrowEndsRun ==
  /\ \A i \in 1..Len(log) :
       log[i].result = "throw" => (i = Len(log) /\ pc = "failed" /\ exitCode = 1)
  /\ (pc = "failed" /\ LastOp = "cp") =>
       \A p \in DOMAIN dest : dest[p].origin # "old"

\* The copy has thrown after the renames and the deletion of the old copy.
C16_Witness ==
  /\ pc = "failed"
  /\ LastOp = "cp"
  /\ \E i \in 1..Len(log) : log[i].op = "rename"
  /\ \E i \in 1..Len(log) : log[i].op = "rm_docs" /\ log[i].result = "ok"
  /\ dest # preDest

\* C17: a run that fails in or after the deletion of a published copy
\* leaves a destination that is not that copy: none of its files is
\* brought back, and what is there is a part of the old copy (failed
\* deletion) or a part of the normalized subtree (failed copy).
C17_NoRollback ==
  (pc = "failed" /\ LastOp \in {"rm_docs", "cp"} /\ preDestExists) =>
    IF LastOp = "rm_docs" THEN dest \in PartialTrees(preDest)
    ELSE dest \in PartialTrees(docs)

\* The run has failed in the copy and the destination, which held a
\* complete copy before, is empty.
C17_Witness ==
  /\ pc = "failed"
  /\ LastOp = "cp"
  /\ preDestExists
  /\ preDest # EmptyTree
  /\ docs # EmptyTree
  /\ dest = EmptyTree

GitLog == SelectSeq(log, LAMBDA e : e.op \in GitOps)

\* C19: git is invoked at most three times, as clone, sparse-checkout and
\* checkout in this order, never after the normalization has started; a
\* successful run has made exactly these three invocations.
C19_ThreeGitInvocationsInOrder ==
  /\ \E n \in 0..3 :
       [i \in 1..Len(GitLog) |-> GitLog[i].op]
         = SubSeq(<<"clone", "sparse-checkout", "checkout">>, 1, n)
  /\ \A i, j \in 1..Len(log) :
       (log[i].op \in {"readdir", "rename"} /\ log[j].op \in GitOps) => j < i
  /\ pc = "done" => Len(GitLog) = 3

\* A successful run that renamed entries.
C19_Witness ==
  /\ Success
  /\ \E i \in 1..Len(log) : log[i].op = "rename"

\* C20: with no cache directory step 1 does nothing and goes on; with no
\* destination step 4 does nothing and goes on, and the copy that
\* completes has created the destination.
C20_AbsentDirectoriesAreNoError ==
  [][/\ (pc = "reset_cache" /\ ~cacheExists) =>
          (pc' = "clone" /\ log' = log /\ cacheExists' = cacheExists)
     /\ (pc = "rm_docs" /\ ~destExists) =>
          (pc' = "copy" /\ log' = log /\ dest' = dest)
     /\ (pc = "copy" /\ pc' = "done") => destExists']_vars

\* A run that found neither a cache nor a destination has completed and
\* published the subtree.
C20_Witness ==
  /\ pc = "done"
  /\ ~preDestExists
  /\ ~Executed("rm_cache")
  /\ ~Executed("rm_docs")
  /\ destExists
  /\ dest # EmptyTree

\* The iteration renamed a regular file.
FileRename(v) == v.from # v.to /\ v.found /\ v.node.kind = "file"

\* C13: a file renamed onto an existing file of the normalized name raises
\* no error of its own (the iteration fails only when the filesystem
\* fails); the rename replaces the file that was there, and after a
\* successful run the destination holds at that name one file, with the
\* content of the entry renamed there last.
C13_CollisionOverwritesSilently ==
  /\ \A i \in 1..Len(visits) :
       (FileRename(visits[i]) /\ visits[i].over = "file") =>
         visits[i].result \in {"renamed", "fault"}
  /\ Success =>
       \A j \in 1..Len(visits) :
         ( /\ FileRename(visits[j]) /\ visits[j].result = "renamed"
           /\ \E i \in 1..Len(visits) :
                /\ FileRename(visits[i]) /\ visits[i].over = "file"
                /\ visits[i].to = visits[j].to
           /\ \A k \in j + 1..Len(visits) :
                visits[k].result = "renamed" =>
                  (visits[k].to # visits[j].to /\ visits[k].from # visits[j].to) )
         => ( /\ visits[j].to \in DOMAIN dest
              /\ dest[visits[j].to] = visits[j].node )

\* Two prefixed files with the same remainder were renamed one after the
\* other, the run succeeded, and the destination holds the content of the
\* second under the common name.
C13_Witness ==
  /\ Success
  /\ \E i, j \in 1..Len(visits) :
       /\ i < j
       /\ FileRename(visits[i]) /\ FileRename(visits[j])
       /\ visits[i].to = visits[j].to
       /\ visits[j].over = "file"
       /\ visits[i].node # visits[j].node
       /\ dest[visits[j].to] = visits[j].node

\* Two entries of one directory of t normalize to the same name.
SameNormalizedName(t) ==
  \E p, q \in DOMAIN t :
    /\ p # q
    /\ Parent(p) = Parent(q)
    /\ RefNormalize(Last(p)) = RefNormalize(Last(q))

\* C14 as stated: an entry below the root is visited only after its
\* directory has been visited and through the path the directory has
\* then; when no two siblings normalize to the same name, every rename
\* issued has a source that exists and a target that does not.
C14_RenamesTopDownOntoFreeNames ==
  /\ \A j \in 1..Len(visits) :
       Len(visits[j].from) > 1 =>
         \E i \in 1..j - 1 :
           /\ visits[i].to = Parent(visits[j].from)
           /\ visits[i].node.kind = "dir"
           /\ visits[i].result \in {"renamed", "kept"}
  /\ ~SameNormalizedName(checkedOut) =>
       \A j \in 1..Len(visits) :
         visits[j].from # visits[j].to =>
           (visits[j].found /\ visits[j].over = "none")

\* The entry at p of t has a name without numeric prefix.
Unprefixed(t, p) == p \in DOMAIN t /\ ~StartsWithPrefix(Last(p))

\* The place of p below the normalized path of its directory.
SamePlace(p) == Join(NormPath(Parent(p)), Last(p))

\* No other entry of p's directory is renamed to the name of p.
NameNotTaken(t, p) ==
  \A q \in DOMAIN t :
    (q # p /\ Parent(q) = Parent(p)) => RefNormalize(Last(q)) # Last(p)

\* The visit of an entry without numeric prefix issues no rename and fails
\* in nothing.
UnprefixedVisitsAreNoOps ==
  \A i \in 1..Len(visits) :
    ~StartsWithPrefix(Last(visits[i].from)) =>
      (visits[i].to = visits[i].from /\ visits[i].result = "kept")

\* C15 as stated: an entry without numeric prefix gets no rename, and after
\* a successful run it is in the destination, under its name, below the
\* normalized path of its directory.
C15_Original ==
  /\ UnprefixedVisitsAreNoOps
  /\ Success =>
       \A p \in DOMAIN checkedOut :
         Unprefixed(checkedOut, p) =>
           (SamePlace(p) \in DOMAIN dest /\ dest[SamePlace(p)] = checkedOut[p])

\* C15, amended: the same, for every entry without numeric prefix whose
\* name no sibling is renamed to.
C15_UnprefixedEntryPassesThrough ==
  /\ UnprefixedVisitsAreNoOps
  /\ Success =>
       \A p \in DOMAIN checkedOut :
         (Unprefixed(checkedOut, p) /\ NameNotTaken(checkedOut, p)) =>
           (SamePlace(p) \in DOMAIN dest /\ dest[SamePlace(p)] = checkedOut[p])

\* A run has succeeded over a subtree with an unprefixed file below a
\* prefixed directory, and the file was visited.
C15_Witness ==
  /\ Success
  /\ \E p \in DOMAIN checkedOut :
       /\ Unprefixed(checkedOut, p)
       /\ NameNotTaken(checkedOut, p)
       /\ checkedOut[p].kind = "file"
       /\ Len(p) > 1
       /\ StartsWithPrefix(p[1])
       /\ \E i \in 1..Len(visits) :
            Last(visits[i].from) = Last(p) /\ visits[i].result = "kept"

\* The second of two runs has succeeded, the first having succeeded too.
SecondSuccess == prior = "success" /\ Success

\* C11 as stated: against an unchanged upstream the second of two
\* successful runs leaves the destination tree the first one left.
C11_Original == SecondSuccess => (destExists /\ dest = preDest)

\* C11, amended: the same when no entry of the upstream subtree normalizes
\* to the original or the normalized name of a sibling; the tree is then
\* the normalized image of the upstream subtree.
C11_SecondRunSameDestination ==
  (SecondSuccess /\ ~Clash(remote)) =>
    /\ destExists
    /\ dest = preDest
    /\ DOMAIN dest = {NormPath(p) : p \in DOMAIN remote}

\* Two successful runs over a clash-free subtree with a prefixed entry.
C11_Witness ==
  /\ SecondSuccess
  /\ ~Clash(remote)
  /\ \E p \in DOMAIN remote : StartsWithPrefix(Last(p))
  /\ \E i \in 1..Len(visits) : visits[i].result = "renamed"

\* The destinations a successful run from a clean state (no cache, no
\* destination) can produce for the upstream subtree.
CleanRunResults == {Copied(u, EmptyTree) : u \in RenameAllIn(remote, <<>>)}

\* C18: when a run was killed, at whatever point, a following run that
\* succeeds leaves a destination that a run from a clean state produces
\* for the same upstream subtree.
C18_RecoveryAfterInterruption ==
  (prior = "killed" /\ Success) => (destExists /\ dest \in CleanRunResults)

\* A run has succeeded after a run that was killed while part of a cache
\* and part of a destination were on disk, both different from what the
\* successful run produced.
C18_Witness ==
  /\ prior = "killed"
  /\ Success
  /\ preDestExists
  /\ preDest # EmptyTree
  /\ preDest # dest
  /\ \E i \in 1..Len(log) : log[i].op = "rm_cache"
  /\ \E i \in 1..Len(log) : log[i].op = "rm_docs"

\* C25 as stated: every rename issued gives the entry a non-empty name;
\* its target is a path in the containing directory, never the directory.
C25_RenamedNameIsNotEmpty ==
  \A i \in 1..Len(visits) :
    visits[i].from # visits[i].to =>
      (Len(visits[i].to) = Len(visits[i].from) /\ Last(visits[i].to) # <<>>)

\* The three git invocations have returned to the script and there is no
\* docs directory in the cache.
SubtreeMissingAfterGit ==
  /\ ~docsExists
  /\ Len(log) >= 3
  /\ Len(GitLog) = 3
  /\ GitLog[3].result # "error"

\* C26: when the docs directory is missing after the three git
\* invocations, the run goes no further than the first readdirSync of the
\* normalization, which throws: it ends with a non-zero exit code, the
\* destination is neither deleted nor written and keeps its content.
C26_MissingSubtreeAbortsInNormalization ==
  SubtreeMissingAfterGit =>
    /\ pc \in {"rename", "failed"}
    /\ pc = "failed" => (LastOp = "readdir" /\ exitCode # 0)
    /\ DestUntouched
    /\ ~Executed("rm_docs")
    /\ ~Executed("cp")

\* A run over an upstream without docs directory, whose three git
\* invocations succeeded, has ended; a published copy was in place.
C26_Witness ==
  /\ pc = "failed"
  /\ ~docsExists
  /\ Len(GitLog) = 3
  /\ \A i \in 1..3 : GitLog[i].result = "ok"
  /\ LastOp = "readdir"
  /\ preDestExists
  /\ dest # EmptyTree

\* C21: in every state of a run, however it ends, the files next to the
\* destination in the content directory are the ones the site had before
\* the run; the run writes below cacheDir and below docsPath only.
C21_OnlyCacheAndDestinationChange == outside = SiteTree

\* A run that removed a stale cache and an old published copy has ended,
\* in success or in failure after it had begun to write the destination.
C21_Witness ==
  /\ Ended
  /\ Executed("rm_cache")
  /\ Executed("rm_docs")
  /\ Executed("cp")
  /\ outside = SiteTree
  /\ outside # EmptyTree

\* What lies below the docs directory of the cache.
CachedSubtree == Subtree(CacheTree(repo, docsExists, docs), DocsName)

\* C24: every entry of the destination is an entry the docs directory of
\* the cache holds at that path, or one the destination had before the
\* run; after a successful run the destination is exactly the tree below
\* the docs directory, so nothing of the metadata or of the repository
\* root is in it. Every rename takes an entry below the docs directory,
\* never the docs directory itself.
C24_OnlySubtreePublished ==
  /\ \A p \in DOMAIN dest :
       \/ p \in DOMAIN CachedSubtree /\ dest[p] = CachedSubtree[p]
       \/ p \in DOMAIN preDest /\ dest[p] = preDest[p]
  /\ Success => dest = CachedSubtree
  /\ \A i \in 1..Len(visits) : visits[i].from # <<>>

\* A successful run has published a renamed subtree while the cache held
\* metadata and a file of the repository root.
C24_Witness ==
  /\ Success
  /\ dest # EmptyTree
  /\ \E i \in 1..Len(visits) : visits[i].result = "renamed"
  /\ <<GitDirName>> \in DOMAIN CacheTree(repo, docsExists, docs)
  /\ <<RootFileName>> \in DOMAIN CacheTree(repo, docsExists, docs)
  /\ <<GitDirName>> \notin DOMAIN dest

\* A call of renameAll(docsDir) has come to its end: it has returned, or
\* an exception has left it.
WalkOver ==
  \/ pc \in {"failed", "done"}
  \/ pc = "renaming" /\ Len(stack) = 1 /\ Top.items = <<>>

RenameErrnos == {"ENOENT", "EINVAL", "ENOTDIR", "EISDIR", "ENOTEMPTY"}

\* The filesystem has refused nothing for a reason outside the tree.
NoOutsideFailure ==
  pc = "failed" => (visits # <<>> /\ visits[Len(visits)].result \in RenameErrnos)

\* The path at which the walk meets the entry that was at p: below the
\* stripped path of its directory, under its own name.
VisitPath(p) ==
  Join([i \in 1..Len(p) - 1 |-> stripPrefix(p[i])], Last(p))

\* At the end of the first walk every entry of the tree has been visited
\* exactly once, and nothing else has.
EveryEntryVisitedOnce ==
  /\ Len(visits) = Cardinality(DOMAIN checkedOut)
  /\ \A p \in DOMAIN checkedOut :
       \E i \in 1..Len(visits) :
         /\ visits[i].from = VisitPath(p)
         /\ visits[i].found
         /\ visits[i].node = checkedOut[p]
         /\ \A j \in 1..Len(visits) : visits[j].from = VisitPath(p) => j = i

\* C23 as stated: every call of renameAll comes to an end, and on a tree
\* in which no two siblings normalize to the same name the walk has then
\* visited every file and directory exactly once (so renamed each at most
\* once).
C23_WalkTerminatesVisitingEachEntryOnce ==
  /\ (pc = "rename") ~> WalkOver
  /\ []((pass = 1 /\ WalkOver /\ NoOutsideFailure
           /\ ~SameNormalizedName(checkedOut)) => EveryEntryVisitedOnce)

\* The destinations that are a normalized copy of the tree t.
NormalizedCopies(t) == {Copied(u, EmptyTree) : u \in RenameAllIn(t, <<>>)}

\* The other process has not executed a statement of the script.
OtherNotStarted == suspended # <<>> /\ suspended[1].pc = "reset_cache"

\* The running process has completed while the other one had not begun.
AloneAndDone == pc = "done" /\ OtherNotStarted

\* C22: a process that goes through the script while no other process
\* works on the directories ends with the destination a normalized copy of
\* the subtree it checked out; the state C22_Witness describes, in which
\* two processes have interleaved, is reachable.
C22_SingleRunnerPublishesNormalizedCopy ==
  AloneAndDone => (destExists /\ dest \in NormalizedCopies(checkedOut))

\* Two processes have interleaved; one has gone through its five steps
\* with every command successful and exit code 0, and the destination is
\* not a normalized copy of the upstream subtree.
C22_Witness ==
  /\ Success
  /\ exitCode = 0
  /\ Executed("clone") /\ Executed("checkout") /\ Executed("readdir")
  /\ Executed("cp")
  /\ checkedOut = remote
  /\ suspended # <<>>
  /\ suspended[1].pc # "reset_cache"
  /\ ~(destExists /\ dest \in NormalizedCopies(remote))

====
